---- MODULE Spec2Model ----
(***************************************************************************)
(* Model of the SSO-1 Switchboard function (oracle/offchain/function/      *)
(* main.py) and of its scoring module (oracle/offchain/scoring).           *)
(*                                                                         *)
(* One invocation of main() is a run through the stages of                 *)
(* execute_function(); main() may be invoked again (a new process) once    *)
(* the previous invocation has exited.  Python strings are sequences of    *)
(* one-character strings, bytes are sequences of integers 0..255, and an   *)
(* Optional value is None (the empty tuple) or Some(x) (the 1-tuple).      *)
(***************************************************************************)
EXTENDS Integers, Sequences, FiniteSets, TLC

\* ------------------------------------------------------------------------
\* Bounds
\* ------------------------------------------------------------------------

MaxInvocations == 2

\* ------------------------------------------------------------------------
\* Optional values
\* ------------------------------------------------------------------------

None == << >>
Some(x) == << x >>

\* ------------------------------------------------------------------------
\* Enumerations and configuration (main.py, scoring/__init__.py)
\* ------------------------------------------------------------------------

SignalType_MOMENTUM == 0
Direction_NEUTRAL == 0
Direction_LONG == 1
Direction_SHORT == 2

\* ScoringConfig() with its dataclass defaults
DefaultScoringConfig ==
    [min_sources_for_confidence |-> 3,
     min_liquidity_depth        |-> 100000,
     magnitude_scale_factor     |-> 1,
     default_validity_slots     |-> 25,
     max_validity_slots         |-> 100]

\* ------------------------------------------------------------------------
\* String and bytes conversions used by the entry point
\* ------------------------------------------------------------------------

DecDigits == << "0", "1", "2", "3", "4", "5", "6", "7", "8", "9" >>
HexDigits == << "0", "1", "2", "3", "4", "5", "6", "7", "8", "9",
                "a", "b", "c", "d", "e", "f" >>

IsDecDigit(c) == \E i \in 1..10 : DecDigits[i] = c
DecVal(c) == (CHOOSE i \in 1..10 : DecDigits[i] = c) - 1
IsHexDigit(c) == \E i \in 1..16 : HexDigits[i] = c
HexVal(c) == (CHOOSE i \in 1..16 : HexDigits[i] = c) - 1

RECURSIVE DecValue(_)
DecValue(s) ==
    IF Len(s) = 0 THEN 0
    ELSE 10 * DecValue(SubSeq(s, 1, Len(s) - 1)) + DecVal(s[Len(s)])

\* int(str): an optional sign followed by at least one decimal digit;
\* anything else raises ValueError.
int(s) ==
    LET signed == Len(s) > 0 /\ s[1] \in {"-", "+"}
        digits == IF signed THEN SubSeq(s, 2, Len(s)) ELSE s
        ok     == Len(digits) > 0 /\ \A i \in 1..Len(digits) : IsDecDigit(digits[i])
    IN  IF ~ok THEN [ok |-> FALSE, value |-> 0]
        ELSE [ok |-> TRUE,
              value |-> IF signed /\ s[1] = "-" THEN 0 - DecValue(digits)
                        ELSE DecValue(digits)]

\* str.ljust(width, fill) and bytes.ljust(width, fill)
ljust(s, width, fill) ==
    IF Len(s) >= width THEN s
    ELSE s \o [i \in 1..(width - Len(s)) |-> fill]

\* seq[:n]
Take(s, n) == SubSeq(s, 1, IF Len(s) < n THEN Len(s) ELSE n)

\* bytes.fromhex(str): two hexadecimal digits per byte; a non-hexadecimal
\* character or an odd number of digits raises ValueError.
fromhex(s) ==
    LET ok == /\ \A i \in 1..Len(s) : IsHexDigit(s[i])
              /\ Len(s) % 2 = 0
    IN  IF ~ok THEN [ok |-> FALSE, value |-> << >>]
        ELSE [ok |-> TRUE,
              value |-> [i \in 1..(Len(s) \div 2) |->
                            16 * HexVal(s[2 * i - 1]) + HexVal(s[2 * i])]]

\* str.encode() for the ASCII characters of the asset pairs
AsciiChars == << "/", "B", "C", "D", "L", "O", "S", "T", "U" >>
AsciiCodes == << 47, 66, 67, 68, 76, 79, 83, 84, 85 >>
ord(c) == AsciiCodes[CHOOSE i \in 1..Len(AsciiChars) : AsciiChars[i] = c]
encode(s) == [i \in 1..Len(s) |-> ord(s[i])]

\* bytes(n)
bytes(n) == [i \in 1..n |-> 0]

\* ------------------------------------------------------------------------
\* Process environment (os.environ) read by the entry point
\* ------------------------------------------------------------------------

ValidityEnv ==
    { None, Some(<< "5", "0", "0" >>), Some(<< "0" >>), Some(<< "-", "5" >>),
      Some(<< "a", "b", "c" >>) }
ModelVersionEnv == { None, Some(<< "x", "y", "z" >>) }
AssetPairEnv == { None, Some(<< "B", "T", "C", "/", "U", "S", "D", "C" >>) }

Environments ==
    [DEFAULT_ASSET_PAIR : AssetPairEnv,
     DEFAULT_VALIDITY_SLOTS : ValidityEnv,
     MODEL_VERSION : ModelVersionEnv]

\* os.getenv(key, default)
getenv(env, key, default) == IF env[key] = None THEN default ELSE env[key][1]

VARIABLES
    pc,                 \* position of the current invocation of main()
    environ,            \* os.environ of the current invocation
    measurementMatches, \* whether the enclave measurement is a whitelisted one
    deadlineExpired,    \* whether the overall deadline has passed
    invocations,        \* number of invocations of main() started so far
    request,            \* execute_function locals (Optional)
    asset_pair,
    model_version,
    current_slot,
    raw_data,
    market_context,
    signal_assessment,
    tee_receipt,
    result,             \* FunctionResult returned by execute_function
    submitted,          \* argument submit_result was called with
    exception,          \* exception raised in the try block of main()
    exit_code,          \* value returned by main()
    trace,              \* stages performed by the current invocation
    prevRun,            \* inputs and outputs of the last submitting invocation
    scoreLast,          \* last call of score_market_context: args and result
    scorePrev,          \* the call of score_market_context before that one
    deriveCall          \* a direct call of derive_market_context: args, result

vars == << pc, environ, measurementMatches, deadlineExpired, invocations,
           request, asset_pair, model_version, current_slot, raw_data,
           market_context, signal_assessment, tee_receipt, result, submitted,
           exception, exit_code, trace, prevRun, scoreLast, scorePrev,
           deriveCall >>

locals == << request, asset_pair, model_version, current_slot, raw_data,
             market_context, signal_assessment, tee_receipt, result >>

scoring == << scoreLast, scorePrev >>
world == << environ, measurementMatches, invocations, prevRun >>

\* ------------------------------------------------------------------------
\* Scoring module (scoring/__init__.py)
\* ------------------------------------------------------------------------

\* compute_confidence scaled from the source count with no threshold gate
compute_confidence_ungated(source_count, liquidity_depth, volatility, config) ==
    IF source_count * 20 > 100 THEN 100 ELSE source_count * 20

compute_confidence(source_count, liquidity_depth, volatility, config) == 0

compute_direction(price, volume, volatility, signal_type) == Direction_NEUTRAL

\* compute_magnitude as a price/volatility ratio that is scaled, not clamped
compute_magnitude_unclamped(price, volume, volatility, direction, config) ==
    (price \div (volatility + 1)) * config.magnitude_scale_factor

compute_magnitude(price, volume, volatility, direction, config) == 50

determine_signal_type(volatility, volume, liquidity_depth) == SignalType_MOMENTUM

\* config is Optional: None selects ScoringConfig()
score_market_context(slot, price, volume_24h, volatility_1h, liquidity_depth, source_count, config) ==
    LET cfg         == IF config = None THEN DefaultScoringConfig ELSE config[1]
        signal_type == determine_signal_type(volatility_1h, volume_24h,
                                             liquidity_depth)
        direction   == compute_direction(price, volume_24h, volatility_1h,
                                         signal_type)
        magnitude   == compute_magnitude(price, volume_24h, volatility_1h,
                                         direction, cfg)
        confidence  == compute_confidence(source_count, liquidity_depth,
                                          volatility_1h, cfg)
    IN  [signal_type |-> signal_type,
         direction   |-> direction,
         magnitude   |-> magnitude,
         confidence  |-> confidence]

\* ------------------------------------------------------------------------
\* Pipeline stages (function/main.py)
\* ------------------------------------------------------------------------

parse_switchboard_request(env) ==
    LET slots == int(getenv(env, "DEFAULT_VALIDITY_SLOTS", << "2", "5" >>))
    IN  [ok |-> slots.ok,
         value |-> [asset_pair |-> getenv(env, "DEFAULT_ASSET_PAIR",
                                          << "S", "O", "L", "/", "U", "S", "D", "C" >>),
                    validity_slots |-> slots.value]]

get_current_slot == 0

fetch_market_data(asset_pair_str) ==
    [sources |-> << >>, prices |-> << >>, volumes |-> << >>,
     timestamps |-> << >>]

\* derive_market_context building the bitmap but leaving the count at 0
derive_market_context_miscounted(raw, pair, slot) ==
    [slot            |-> slot,
     asset_pair      |-> pair,
     price           |-> 0,
     volume_24h      |-> 0,
     volatility_1h   |-> 0,
     liquidity_depth |-> 0,
     source_bitmap   |-> 2 ^ Len(raw.sources) - 1,
     source_count    |-> 0]

\* derive_market_context accumulating a figure across invocations
derive_market_context_stateful(raw, pair, slot) ==
    [slot            |-> slot,
     asset_pair      |-> pair,
     price           |-> 0,
     volume_24h      |-> invocations,
     volatility_1h   |-> 0,
     liquidity_depth |-> 0,
     source_bitmap   |-> 0,
     source_count    |-> 0]

derive_market_context(raw, pair, slot) ==
    [slot            |-> slot,
     asset_pair      |-> pair,
     price           |-> 0,
     volume_24h      |-> 0,
     volatility_1h   |-> 0,
     liquidity_depth |-> 0,
     source_bitmap   |-> 0,
     source_count    |-> 0]

compute_signal_assessment(context, version, validity_slots) ==
    [signal_type      |-> SignalType_MOMENTUM,
     direction        |-> Direction_NEUTRAL,
     magnitude        |-> 50,
     confidence       |-> 0,
     valid_from_slot  |-> context.slot,
     valid_until_slot |-> context.slot + validity_slots,
     model_version    |-> version]

\* capture_tee_attestation stamping a slot read again at capture time
capture_tee_attestation_reread(context, assessment, slot) ==
    [enclave_signer   |-> bytes(32),
     attestation_hash |-> bytes(32),
     mr_enclave       |-> bytes(32),
     timestamp_slot   |-> slot + 1,
     platform_version |-> 0]

capture_tee_attestation(context, assessment, slot) ==
    [enclave_signer   |-> bytes(32),
     attestation_hash |-> bytes(32),
     mr_enclave       |-> bytes(32),
     timestamp_slot   |-> slot,
     platform_version |-> 0]

FunctionResult(context, assessment, receipt) ==
    [market_context    |-> context,
     signal_assessment |-> assessment,
     tee_receipt       |-> receipt]

\* ------------------------------------------------------------------------
\* Initial state: main() has just entered its try block
\* ------------------------------------------------------------------------

Init ==
    /\ pc = "main"
    /\ environ \in Environments
    /\ measurementMatches \in BOOLEAN
    /\ deadlineExpired = FALSE
    /\ invocations = 1
    /\ request = None
    /\ asset_pair = None
    /\ model_version = None
    /\ current_slot = None
    /\ raw_data = None
    /\ market_context = None
    /\ signal_assessment = None
    /\ tee_receipt = None
    /\ result = None
    /\ submitted = None
    /\ exception = None
    /\ exit_code = None
    /\ trace = << >>
    /\ prevRun = None
    /\ scoreLast = None
    /\ scorePrev = None
    /\ deriveCall = None

\* ------------------------------------------------------------------------
\* execute_function, one action per step
\* ------------------------------------------------------------------------

\* Step 1: request = parse_switchboard_request(); int() may raise ValueError
ParseRequest ==
    /\ pc = "main"
    /\ LET r == parse_switchboard_request(environ)
       IN  IF r.ok
           THEN /\ request' = Some(r.value)
                /\ pc' = "parsed"
                /\ UNCHANGED exception
           ELSE /\ exception' = Some("ValueError")
                /\ pc' = "raised"
                /\ UNCHANGED request
    /\ trace' = Append(trace, "parse_request")
    /\ UNCHANGED << world, deadlineExpired, asset_pair, model_version,
                    current_slot, raw_data, market_context, signal_assessment,
                    tee_receipt, result, submitted, exit_code, scoring, deriveCall >>

\* asset pair padded and cut to 32 bytes; model version from MODEL_VERSION,
\* bytes.fromhex() may raise ValueError
NormalizeInputs ==
    /\ pc = "parsed"
    /\ LET pair == Take(ljust(encode(request[1].asset_pair), 32, 0), 32)
           hex  == fromhex(ljust(getenv(environ, "MODEL_VERSION",
                                        << "0", "0", "0", "0", "0", "0", "0", "1" >>),
                                 16, "0"))
       IN  IF hex.ok
           THEN /\ asset_pair' = Some(pair)
                /\ model_version' = Some(Take(hex.value, 8))
                /\ pc' = "normalized"
                /\ UNCHANGED exception
           ELSE /\ asset_pair' = Some(pair)
                /\ exception' = Some("ValueError")
                /\ pc' = "raised"
                /\ UNCHANGED model_version
    /\ trace' = Append(trace, "normalize")
    /\ UNCHANGED << world, deadlineExpired, request, current_slot, raw_data,
                    market_context, signal_assessment, tee_receipt, result,
                    submitted, exit_code, scoring, deriveCall >>

\* Step 2: current_slot = get_current_slot()
GetCurrentSlot ==
    /\ pc = "normalized"
    /\ current_slot' = Some(get_current_slot)
    /\ pc' = "slot"
    /\ trace' = Append(trace, "get_slot")
    /\ UNCHANGED << world, deadlineExpired, request, asset_pair, model_version,
                    raw_data, market_context, signal_assessment, tee_receipt,
                    result, submitted, exception, exit_code, scoring, deriveCall >>

\* Step 3: raw_data = await fetch_market_data(asset_pair_str)
FetchMarketData ==
    /\ pc = "slot"
    /\ raw_data' = Some(fetch_market_data(request[1].asset_pair))
    /\ pc' = "fetched"
    /\ trace' = Append(trace, "fetch")
    /\ UNCHANGED << world, deadlineExpired, request, asset_pair, model_version,
                    current_slot, market_context, signal_assessment,
                    tee_receipt, result, submitted, exception, exit_code,
                    scoring, deriveCall >>

\* Step 4: market_context = derive_market_context(...)
DeriveMarketContext ==
    /\ pc = "fetched"
    /\ market_context' = Some(derive_market_context(raw_data[1], asset_pair[1],
                                                    current_slot[1]))
    /\ pc' = "derived"
    /\ trace' = Append(trace, "derive_context")
    /\ UNCHANGED << world, deadlineExpired, request, asset_pair, model_version,
                    current_slot, raw_data, signal_assessment, tee_receipt,
                    result, submitted, exception, exit_code, scoring, deriveCall >>

\* Step 5: signal_assessment = compute_signal_assessment(...)
ComputeSignalAssessment ==
    /\ pc = "derived"
    /\ signal_assessment' =
           Some(compute_signal_assessment(market_context[1], model_version[1],
                                          request[1].validity_slots))
    /\ pc' = "scored"
    /\ trace' = Append(trace, "score")
    /\ UNCHANGED << world, deadlineExpired, request, asset_pair, model_version,
                    current_slot, raw_data, market_context, tee_receipt,
                    result, submitted, exception, exit_code, scoring, deriveCall >>

\* Step 6: tee_receipt = capture_tee_attestation(...)
CaptureTeeAttestation ==
    /\ pc = "scored"
    /\ tee_receipt' =
           Some(capture_tee_attestation(market_context[1], signal_assessment[1],
                                        current_slot[1]))
    /\ pc' = "attested"
    /\ trace' = Append(trace, "attest")
    /\ UNCHANGED << world, deadlineExpired, request, asset_pair, model_version,
                    current_slot, raw_data, market_context, signal_assessment,
                    result, submitted, exception, exit_code, scoring, deriveCall >>

\* result = FunctionResult(...); return result
AssembleResult ==
    /\ pc = "attested"
    /\ result' = Some(FunctionResult(market_context[1], signal_assessment[1],
                                     tee_receipt[1]))
    /\ pc' = "returned"
    /\ trace' = Append(trace, "assemble")
    /\ UNCHANGED << world, deadlineExpired, request, asset_pair, model_version,
                    current_slot, raw_data, market_context, signal_assessment,
                    tee_receipt, submitted, exception, exit_code, scoring, deriveCall >>

\* ------------------------------------------------------------------------
\* main
\* ------------------------------------------------------------------------

\* submit_result reachable a second time for the same invocation
SubmitResult_Repeated ==
    /\ pc \in {"returned", "submitted"}
    /\ submitted' = result
    /\ pc' = "submitted"
    /\ trace' = Append(trace, "submit")
    /\ UNCHANGED << world, deadlineExpired, locals, exception, exit_code,
                    scoring, deriveCall >>

\* submit_result(result)
SubmitResult ==
    /\ pc = "returned"
    /\ submitted' = result
    /\ pc' = "submitted"
    /\ trace' = Append(trace, "submit")
    /\ UNCHANGED << world, deadlineExpired, locals, exception, exit_code,
                    scoring, deriveCall >>

\* return 0
MainReturn ==
    /\ pc = "submitted"
    /\ exit_code' = Some(0)
    /\ pc' = "exited"
    /\ UNCHANGED << world, deadlineExpired, locals, submitted, exception,
                    trace, scoring, deriveCall >>

\* an except clause that swallows the failure and reports success
MainExcept_Swallow ==
    /\ pc = "raised"
    /\ exit_code' = Some(0)
    /\ pc' = "exited"
    /\ UNCHANGED << world, deadlineExpired, locals, submitted, exception,
                    trace, scoring, deriveCall >>

\* except Exception: return 1
MainExcept ==
    /\ pc = "raised"
    /\ exit_code' = Some(1)
    /\ pc' = "exited"
    /\ UNCHANGED << world, deadlineExpired, locals, submitted, exception,
                    trace, scoring, deriveCall >>

\* The record of an invocation that handed a result to submit_result
RunRecord ==
    [environ           |-> environ,
     current_slot      |-> current_slot[1],
     market_context    |-> market_context[1],
     signal_assessment |-> signal_assessment[1],
     tee_receipt       |-> tee_receipt[1]]

\* A further invocation of main(), in a fresh process
InvokeMain ==
    /\ pc = "exited"
    /\ invocations < MaxInvocations
    /\ invocations' = invocations + 1
    /\ prevRun' = IF submitted # None THEN Some(RunRecord) ELSE prevRun
    /\ environ' \in Environments
    /\ measurementMatches' \in BOOLEAN
    /\ deadlineExpired' = FALSE
    /\ pc' = "main"
    /\ request' = None
    /\ asset_pair' = None
    /\ model_version' = None
    /\ current_slot' = None
    /\ raw_data' = None
    /\ market_context' = None
    /\ signal_assessment' = None
    /\ tee_receipt' = None
    /\ result' = None
    /\ submitted' = None
    /\ exception' = None
    /\ exit_code' = None
    /\ trace' = << >>
    /\ UNCHANGED << scoring, deriveCall >>

\* The overall deadline passes while the invocation is still running
DeadlineExpires ==
    /\ pc \notin {"raised", "submitted", "exited"}
    /\ ~deadlineExpired
    /\ deadlineExpired' = TRUE
    /\ UNCHANGED << pc, world, locals, submitted, exception, exit_code, trace,
                    scoring, deriveCall >>

\* ------------------------------------------------------------------------
\* Calls of the scoring module's entry point
\* ------------------------------------------------------------------------

AltScoringConfig ==
    [min_sources_for_confidence |-> 2,
     min_liquidity_depth        |-> 50000,
     magnitude_scale_factor     |-> 1,
     default_validity_slots     |-> 25,
     max_validity_slots         |-> 100]

ScoreSourceCounts == {2, 3}
ScoreLiquidityDepths == {99999, 100000}
ScoreConfigs == {None, Some(AltScoringConfig)}

ScoreArgs ==
    [slot : {0}, price : {1000000000}, volume_24h : {1000000},
     volatility_1h : {1000}, liquidity_depth : ScoreLiquidityDepths,
     source_count : ScoreSourceCounts, config : ScoreConfigs]

ScoreCall ==
    /\ \E a \in ScoreArgs :
          scoreLast' = Some([args |-> a,
                             result |-> score_market_context(
                                 a.slot, a.price, a.volume_24h, a.volatility_1h,
                                 a.liquidity_depth, a.source_count, a.config)])
    /\ scorePrev' = scoreLast
    /\ UNCHANGED << pc, world, deadlineExpired, locals, submitted, exception,
                    exit_code, trace, deriveCall >>

Next ==
    \/ ParseRequest
    \/ NormalizeInputs
    \/ GetCurrentSlot
    \/ FetchMarketData
    \/ DeriveMarketContext
    \/ ComputeSignalAssessment
    \/ CaptureTeeAttestation
    \/ AssembleResult
    \/ SubmitResult
    \/ MainReturn
    \/ MainExcept
    \/ InvokeMain
    \/ DeadlineExpires
    \/ ScoreCall

Spec == Init /\ [][Next]_vars

\* ------------------------------------------------------------------------
\* Direct calls of derive_market_context, with arguments of any shape
\* ------------------------------------------------------------------------

MaxSources == 4
MaxSlot == 11

\* raw data as fetch_market_data is documented to return it: one entry per
\* responding source
RawData(n) ==
    [sources    |-> [i \in 1..n |-> i],
     prices     |-> [i \in 1..n |-> 1000000000],
     volumes    |-> [i \in 1..n |-> 200000],
     timestamps |-> [i \in 1..n |-> i]]

DeriveArgs ==
    [raw_data : {RawData(n) : n \in 0..MaxSources},
     asset_pair : {Take(ljust(encode(p[1]), 32, 0), 32) :
                      p \in AssetPairEnv \ {None}}
                  \cup {bytes(32)},
     current_slot : 0..MaxSlot]

DeriveCall ==
    /\ \E a \in DeriveArgs :
          deriveCall' = Some([args |-> a,
                              result |-> derive_market_context(
                                  a.raw_data, a.asset_pair, a.current_slot)])
    /\ UNCHANGED << pc, world, deadlineExpired, locals, submitted, exception,
                    exit_code, trace, scoring >>

InitCalls ==
    /\ Init
    /\ environ = [DEFAULT_ASSET_PAIR |-> None, DEFAULT_VALIDITY_SLOTS |-> None,
                  MODEL_VERSION |-> None]
    /\ measurementMatches

NextCalls == DeriveCall

SpecCalls == InitCalls /\ [][NextCalls]_vars

\* ------------------------------------------------------------------------
\* Properties
\* ------------------------------------------------------------------------

StageOrder ==
    << "parse_request", "normalize", "get_slot", "fetch", "derive_context",
       "score", "attest", "assemble", "submit" >>

IsPrefix(s, t) == Len(s) <= Len(t) /\ SubSeq(t, 1, Len(s)) = s
Performed(stage) == \E i \in 1..Len(trace) : trace[i] = stage
Min(a, b) == IF a < b THEN a ELSE b

\* C1: a failing stage aborts the invocation: no FunctionResult is assembled,
\* submit_result is not called and main returns a non-zero exit code; and
\* submit_result is only called with the FunctionResult made of the context,
\* assessment and receipt that the stages of this same invocation produced.
C1_AbortOnFailure ==
    /\ exception # None =>
          /\ result = None
          /\ submitted = None
          /\ ~Performed("assemble") /\ ~Performed("submit")
          /\ pc \in {"raised", "exited"}
          /\ pc = "exited" => exit_code # None /\ exit_code[1] # 0
    /\ (exit_code = Some(0)) => exception = None /\ submitted # None
    /\ submitted # None =>
          /\ exception = None
          /\ market_context # None /\ signal_assessment # None
          /\ tee_receipt # None
          /\ Performed("derive_context") /\ Performed("score")
          /\ Performed("attest") /\ Performed("assemble")
          /\ submitted = Some(FunctionResult(market_context[1],
                                             signal_assessment[1],
                                             tee_receipt[1]))

C1_Witness ==
    /\ pc = "exited"
    /\ exception = Some("ValueError")
    /\ exit_code = Some(1)
    /\ submitted = None
    /\ result = None

\* C2: the stages of an invocation happen in the fixed order slot, context,
\* assessment, attestation, assembly, submission, each one only after the
\* previous one has produced its output, and submission happens at most once
\* and only after assembly.
C2_StageOrder ==
    /\ IsPrefix(trace, StageOrder)
    /\ market_context # None => current_slot # None /\ raw_data # None
    /\ signal_assessment # None => market_context # None
    /\ tee_receipt # None => signal_assessment # None
    /\ result # None => tee_receipt # None
    /\ submitted # None => result # None /\ Performed("assemble")
    /\ Cardinality({i \in 1..Len(trace) : trace[i] = "submit"}) <= 1

C2_Witness ==
    /\ trace = StageOrder
    /\ submitted # None
    /\ pc = "exited"

\* C3: every SignalAssessment has valid_from_slot = current_slot and
\* valid_until_slot = current_slot + min(requested validity,
\* max_validity_slots), hence a window that is not negative and no longer
\* than max_validity_slots.
C3_ValidityWindowClamped ==
    signal_assessment # None =>
        LET sa  == signal_assessment[1]
            req == request[1].validity_slots
            max == DefaultScoringConfig.max_validity_slots
        IN  /\ sa.valid_from_slot = current_slot[1]
            /\ sa.valid_until_slot = current_slot[1] + Min(req, max)
            /\ sa.valid_from_slot <= sa.valid_until_slot
            /\ sa.valid_until_slot - sa.valid_from_slot <= max

\* C4: a requested validity <= 0 makes scoring fail with
\* InvalidValidityWindow: no SignalAssessment exists, the invocation aborts
\* and nothing is submitted.
C4_InvalidValidityWindow ==
    (request # None /\ request[1].validity_slots <= 0) =>
        /\ signal_assessment = None
        /\ result = None
        /\ submitted = None
        /\ Performed("score") => exception = Some("InvalidValidityWindow")

\* C5: fetched data without enough sources (here: with no source at all)
\* makes the context derivation fail with InsufficientSources: no
\* MarketContext exists, no FunctionResult is produced and nothing is
\* submitted.
C5_InsufficientSources ==
    (raw_data # None /\ Len(raw_data[1].sources) = 0) =>
        /\ market_context = None
        /\ result = None
        /\ submitted = None
        /\ Performed("derive_context") => exception = Some("InsufficientSources")

\* C6: when the enclave measurement is not a whitelisted one, attestation
\* fails with UnverifiedEnclave: no TeeReceipt exists, no FunctionResult is
\* assembled and nothing is submitted.
C6_UnverifiedEnclave ==
    ~measurementMatches =>
        /\ tee_receipt = None
        /\ result = None
        /\ submitted = None
        /\ Performed("attest") => exception = Some("UnverifiedEnclave")

\* C7: once the overall deadline has expired during an invocation, that
\* invocation submits nothing.
C7_DeadlineAborts ==
    deadlineExpired => submitted = None

\* C8: the attestation_hash of a receipt is the hash of the serialized
\* (MarketContext, SignalAssessment) it binds, so the receipts of two
\* different payloads carry different hashes.
C8_HashBindsPayload ==
    (prevRun # None /\ tee_receipt # None) =>
        ((<< prevRun[1].market_context, prevRun[1].signal_assessment >>
              # << market_context[1], signal_assessment[1] >>)
          => prevRun[1].tee_receipt.attestation_hash
                 # tee_receipt[1].attestation_hash)

\* The thresholds in force for a call of score_market_context
ConfigOf(args) ==
    IF args.config = None THEN DefaultScoringConfig ELSE args.config[1]

Gated(source_count, liquidity_depth, config) ==
    \/ source_count < config.min_sources_for_confidence
    \/ liquidity_depth < config.min_liquidity_depth

\* C9: the confidence returned by score_market_context, and the confidence
\* of the pipeline's SignalAssessment, is 0 whenever the source count is
\* below min_sources_for_confidence or the liquidity depth is below
\* min_liquidity_depth.
C9_ConfidenceGate ==
    /\ scoreLast # None =>
          (Gated(scoreLast[1].args.source_count,
                 scoreLast[1].args.liquidity_depth,
                 ConfigOf(scoreLast[1].args))
             => scoreLast[1].result.confidence = 0)
    /\ signal_assessment # None =>
          (Gated(market_context[1].source_count,
                 market_context[1].liquidity_depth, DefaultScoringConfig)
             => signal_assessment[1].confidence = 0)

C9_Witness ==
    /\ scoreLast # None
    /\ Gated(scoreLast[1].args.source_count, scoreLast[1].args.liquidity_depth,
             ConfigOf(scoreLast[1].args))
    /\ scoreLast[1].result.confidence = 0
    /\ signal_assessment # None
    /\ Gated(market_context[1].source_count, market_context[1].liquidity_depth,
             DefaultScoringConfig)
    /\ signal_assessment[1].confidence = 0

RECURSIVE popcount(_)
popcount(n) == IF n = 0 THEN 0 ELSE (n % 2) + popcount(n \div 2)

\* C11: in every MarketContext returned by derive_market_context, whatever
\* the raw data, asset pair and slot, source_count is the number of set bits
\* of source_bitmap.
C11_CountIsPopcount ==
    /\ deriveCall # None =>
          deriveCall[1].result.source_count
              = popcount(deriveCall[1].result.source_bitmap)
    /\ market_context # None =>
          market_context[1].source_count
              = popcount(market_context[1].source_bitmap)

C11_Witness ==
    /\ deriveCall # None
    /\ Len(deriveCall[1].args.raw_data.sources) = MaxSources
    /\ deriveCall[1].args.current_slot > 0
    /\ deriveCall[1].result.source_count
           = popcount(deriveCall[1].result.source_bitmap)

Directions == {Direction_NEUTRAL, Direction_LONG, Direction_SHORT}

WellFormedSignal(r) ==
    /\ r.magnitude \in 0..100
    /\ r.confidence \in 0..100
    /\ r.direction \in Directions

\* C12: every result of score_market_context and every SignalAssessment of
\* compute_signal_assessment has magnitude and confidence within 0..100 and
\* a direction that is NEUTRAL, LONG or SHORT.
C12_SignalRanges ==
    /\ scoreLast # None => WellFormedSignal(scoreLast[1].result)
    /\ signal_assessment # None => WellFormedSignal(signal_assessment[1])

C12_Witness ==
    /\ scoreLast # None
    /\ WellFormedSignal(scoreLast[1].result)
    /\ signal_assessment # None
    /\ WellFormedSignal(signal_assessment[1])

\* The three parts of an assembled FunctionResult carry the slot that was
\* read at the start of the invocation
SlotsAgree ==
    result # None =>
        /\ result[1].market_context.slot = current_slot[1]
        /\ result[1].signal_assessment.valid_from_slot = current_slot[1]
        /\ result[1].tee_receipt.timestamp_slot = current_slot[1]
        /\ result[1].tee_receipt.timestamp_slot
               - result[1].market_context.slot = 0

\* The attestation step leaves the context and the assessment as they were
CaptureFrame ==
    (pc = "scored" /\ tee_receipt' # tee_receipt) =>
        /\ market_context' = market_context
        /\ signal_assessment' = signal_assessment

\* C13: in every assembled FunctionResult, market_context.slot,
\* signal_assessment.valid_from_slot and tee_receipt.timestamp_slot are all
\* the slot read once at the start of the invocation (a lag of 0), and
\* capturing the attestation changes neither the MarketContext nor the
\* SignalAssessment.
C13_OneSlotAndFrame == [](SlotsAgree) /\ [][CaptureFrame]_vars

C13_Witness ==
    /\ result # None
    /\ tee_receipt # None
    /\ result[1].market_context = market_context[1]
    /\ result[1].signal_assessment = signal_assessment[1]
    /\ result[1].tee_receipt.timestamp_slot = result[1].market_context.slot
    /\ result[1].signal_assessment.valid_from_slot = current_slot[1]

====
